---------------------------- MODULE Spec2Model ----------------------------
(***************************************************************************)
(* A model of read.go: the trailer locator (readTrailer), the xref table   *)
(* reader (Trailer.ListXrefEntries, readXrefEntry), the lookup and         *)
(* extraction (findXrefEntry, readEntry, the show_xref_entry branch of     *)
(* main) and the offset reader (AtReader).                                 *)
(*                                                                         *)
(* A byte is a one-character string ("NUL" is the zero byte), a []byte or  *)
(* a Go string is a sequence of bytes.  A byte source (io.ReaderAt) is a   *)
(* record [data, bad]: its bytes and the 1-based position of a byte the    *)
(* device cannot read (0: none).                                           *)
(***************************************************************************)
EXTENDS Integers, Sequences, FiniteSets, TLC

VARIABLES
  pc,       \* position of the running function
  ra,       \* the io.ReaderAt: [data, bad]
  ar,       \* the AtReader: [offset]; "start", "returned", "got" are its history
  size,     \* readTrailer's size argument
  buf,      \* readTrailer's buf
  tr,       \* the Trailer: [StartXref, Size, Raw]
  scanner,  \* the bufio.Scanner: [lines, i, tok]
  xs,       \* ListXrefEntries' locals: [entries, offset, pos, count, total] and history
  mn,       \* main's locals: [arg, entryN, entry]
  ent,      \* readEntry's ent
  b,        \* readEntry's buffer b
  ret,      \* the bytes readEntry returned (<<>>: nil)
  err       \* the error returned ("nil": none)

vars == <<pc, ra, ar, size, buf, tr, scanner, xs, mn, ent, b, ret, err>>

----------------------------------------------------------------------------
(* Bytes and strings *)

Min(S) == CHOOSE m \in S : \A n \in S : m <= n

Max(S) == CHOOSE m \in S : \A n \in S : m >= n

RECURSIVE Concat(_)
Concat(ss) == IF ss = <<>> THEN <<>> ELSE Head(ss) \o Concat(Tail(ss))

Repeat(c, n) == [i \in 1..n |-> c]

\* s[i:] of Go, i counted from 0
From(s, i) == SubSeq(s, i + 1, Len(s))

HasPrefix(s, p) == Len(s) >= Len(p) /\ SubSeq(s, 1, Len(p)) = p

HasSuffix(s, p) == Len(s) >= Len(p) /\ SubSeq(s, Len(s) - Len(p) + 1, Len(s)) = p

\* bytes.Index / strings.Index: the 0-based place of the first occurrence, or -1
Index(s, p) ==
  LET at == {i \in 1..(Len(s) - Len(p) + 1) : SubSeq(s, i, i + Len(p) - 1) = p}
  IN  IF at = {} THEN -1 ELSE Min(at) - 1

Upper == <<"A", "B", "C", "D", "E", "F", "G", "H", "I", "J", "K", "L", "M",
           "N", "O", "P", "Q", "R", "S", "T", "U", "V", "W", "X", "Y", "Z">>

Lower == <<"a", "b", "c", "d", "e", "f", "g", "h", "i", "j", "k", "l", "m",
           "n", "o", "p", "q", "r", "s", "t", "u", "v", "w", "x", "y", "z">>

\* the simple case folding of one ASCII byte
Fold(c) ==
  IF \E k \in 1..26 : Upper[k] = c
  THEN Lower[CHOOSE k \in 1..26 : Upper[k] = c]
  ELSE c

\* a faulty variant of EqualFold that compares the bytes as they are
EqualFoldExact(s, t) == s = t

EqualFold(s, t) ==
  /\ Len(s) = Len(t)
  /\ \A i \in 1..Len(s) : Fold(s[i]) = Fold(t[i])

Digits == <<"0", "1", "2", "3", "4", "5", "6", "7", "8", "9">>

IsDigit(c) == \E k \in 1..10 : Digits[k] = c

DigitVal(c) == (CHOOSE k \in 1..10 : Digits[k] = c) - 1

RECURSIVE Decimal(_)
Decimal(s) ==
  IF s = <<>> THEN 0 ELSE 10 * Decimal(SubSeq(s, 1, Len(s) - 1)) + DigitVal(s[Len(s)])

\* strconv.ParseInt(s, 10, 64) and, on a 64-bit build, strconv.Atoi(s):
\* an optional sign and then one or more decimal digits, nothing else.  The
\* digit strings of the model are a few digits long, far inside int64, so
\* the range error of ParseInt is not reachable and is left out.
ParseInt(s) ==
  LET signed == s # <<>> /\ s[1] \in {"+", "-"}
      ds     == IF signed THEN Tail(s) ELSE s
      mag    == Decimal(ds)
      neg    == signed /\ s[1] = "-"
  IN  IF ds = <<>> \/ \E i \in 1..Len(ds) : ~IsDigit(ds[i])
      THEN [v |-> 0, err |-> "syntax"]
      ELSE [v |-> IF neg THEN -mag ELSE mag, err |-> "nil"]

\* strings.SplitN(s, " ", 3): cut at the first two spaces
SplitN3(s) ==
  LET i == Index(s, <<" ">>)
  IN  IF i < 0 THEN <<s>>
      ELSE LET rest == From(s, i + 1)
               j    == Index(rest, <<" ">>)
           IN  IF j < 0 THEN <<SubSeq(s, 1, i), rest>>
               ELSE <<SubSeq(s, 1, i), SubSeq(rest, 1, j), From(rest, j + 1)>>

\* bufio's dropCR
DropCR(s) ==
  IF s # <<>> /\ s[Len(s)] = "\r" THEN SubSeq(s, 1, Len(s) - 1) ELSE s

\* bufio.ScanLines over the bytes d from 1-based position p to the end of data:
\* each line without its "\n" and one trailing "\r"; a last line without "\n"
\* is a token when it is not empty
RECURSIVE LinesFrom(_, _)
LinesFrom(d, p) ==
  IF p > Len(d) THEN <<>>
  ELSE LET nl == {i \in p..Len(d) : d[i] = "\n"}
       IN  IF nl = {} THEN <<DropCR(SubSeq(d, p, Len(d)))>>
           ELSE <<DropCR(SubSeq(d, p, Min(nl) - 1))>> \o LinesFrom(d, Min(nl) + 1)

ScanLines(d) == LinesFrom(d, 1)

----------------------------------------------------------------------------
(* The byte source and the AtReader *)

\* io.ReaderAt.ReadAt(p, off) with len(p) = n, as os.File and bytes.Reader do
\* it: a negative offset is an error; a read that meets the unreadable byte
\* returns the bytes before it and the device's error; a read that meets the
\* end of the data returns what is left and io.EOF.
ReadAt(r, n, off) ==
  IF off < 0 THEN [n |-> 0, p |-> <<>>, err |-> "negative offset"]
  ELSE LET last == IF off + n > Len(r.data) THEN Len(r.data) ELSE off + n
       IN  IF r.bad > off /\ r.bad <= last
           THEN [n |-> r.bad - 1 - off, p |-> SubSeq(r.data, off + 1, r.bad - 1),
                 err |-> "EIO"]
           ELSE IF off + n > Len(r.data)
           THEN [n |-> IF off < Len(r.data) THEN Len(r.data) - off ELSE 0,
                 p |-> SubSeq(r.data, off + 1, Len(r.data)), err |-> "EOF"]
           ELSE [n |-> n, p |-> SubSeq(r.data, off + 1, off + n), err |-> "nil"]

\* NewAtReader(ra, offset)
NewAtReader(offset) == [offset |-> offset, start |-> offset, returned |-> 0,
                        got |-> <<>>, calls |-> 0, n |-> 0, err |-> "nil"]

NoReader == NewAtReader(0)

\* (ar *AtReader).Read(p) with len(p) = n: the offset after the call
ReadOffset(a, res) ==
  IF res.err # "nil" /\ res.err # "EOF" THEN a.offset ELSE a.offset + res.n

\* The model's defaults for the variables a specification does not use
NoTrailer == [StartXref |-> 0, Size |-> 0, Raw |-> <<>>]

NoScanner == [lines |-> <<>>, i |-> 0, tok |-> <<>>, err |-> "nil"]

NoXref == [entries |-> <<>>, offset |-> 0, pos |-> 0, count |-> 0, total |-> 0,
           from |-> <<>>, last |-> 0, fields |-> 0]

NoMain == [arg |-> 0, entryN |-> 0, entry |-> <<>>]

NoEntry == [ByteOffset |-> 0, Number |-> 0, Generation |-> 0, InUse |-> FALSE]

----------------------------------------------------------------------------
(* Keywords and the bufio.Scanner *)

KwTrailer == <<"t", "r", "a", "i", "l", "e", "r">>

KwStartxref == <<"s", "t", "a", "r", "t", "x", "r", "e", "f">>

KwSize == <<"/", "S", "i", "z", "e">>

KwXref == <<"x", "r", "e", "f">>

KwObj == <<"o", "b", "j">>

KwEndobj == <<"e", "n", "d", "o", "b", "j">>

\* bufio.NewScanner(r) over a reader that delivers the bytes d: the scanner
\* splits with ScanLines; i counts the tokens delivered, tok is Text()
NewScanner(d) == [lines |-> ScanLines(d), i |-> 0, tok |-> <<>>, err |-> "nil"]

\* bufio.NewScanner(NewAtReader(r, off)): the scanner's buffer is larger than
\* the model's files, so its first Read asks for more than the source holds
\* and gets the bytes from off to the end (io.EOF, which the scanner does not
\* report) or to the unreadable byte (the error Err() reports, after the
\* tokens of the bytes that were read)
NewScannerAt(r, off) ==
  LET res == ReadAt(r, Len(r.data) + 1, off)
  IN  [lines |-> ScanLines(res.p), i |-> 0, tok |-> <<>>,
       err |-> IF res.err = "EOF" THEN "nil" ELSE res.err]

\* scanner.Scan(): whether there is a next token, and the scanner after it
CanScan(sc) == sc.i < Len(sc.lines)

Scan(sc) ==
  IF CanScan(sc) THEN [sc EXCEPT !.i = @ + 1, !.tok = sc.lines[sc.i + 1]]
  ELSE [sc EXCEPT !.tok = <<>>]

----------------------------------------------------------------------------
(* SpecTrailer: readTrailer on a file *)

TailLen == 1024

MaxDictLines == 2

\* The lines a trailer dictionary is drawn from
DictLine1 == <<"<", "<", "\n">>

DictLine2 == <<"/", "S", "i", "z", "e", " ", "3", "7", "\n">>

DictLine3 == <<"/", "S", "i", "z", "e", " ", "0", "\n">>

DictLine4 == <<"/", "S", "i", "z", "e", " ", "a", "b", "c", "\n">>

DictLine5 == <<"<", "<", " ", "/", "S", "i", "z", "e", " ", "3", "7", " ",
    "/", "R", "o", "o", "t", " ", "1", " ", "0", " ", "R", " ", ">", ">",
    "\n">>

DictLine6 == <<"<", "<", " ", "/", "S", "i", "z", "e", " ", "3", "7", "\r",
    "\n">>

DictLine7 == <<"/", "R", "o", "o", "t", " ", "1", " ", "0", " ", "R", "\n">>

DictLine8 == <<"/", "S", "i", "z", "e", " ", "6", "\n">>

DictMenu == {DictLine1, DictLine2, DictLine3, DictLine4, DictLine5, DictLine6, DictLine7, DictLine8}

\* What follows the dictionary: nothing, or the startxref line and its value
StartxrefPart1 == <<>>

StartxrefPart2 == <<"s", "t", "a", "r", "t", "x", "r", "e", "f", "\n", "9",
    "\n">>

StartxrefPart3 == <<"s", "t", "a", "r", "t", "x", "r", "e", "f", "\n", "1",
    "1", "6", "\r", "\n">>

StartxrefPart4 == <<"s", "t", "a", "r", "t", "x", "r", "e", "f", "\n", "a",
    "b", "c", "\n">>

StartxrefPart5 == <<"s", "t", "a", "r", "t", "x", "r", "e", "f", "\n">>

StartxrefMenu == {StartxrefPart1, StartxrefPart2, StartxrefPart3, StartxrefPart4, StartxrefPart5}

EOFMarker == <<"%", "%", "E", "O", "F", "\n">>

\* n bytes of a comment line, to give a file its length
Filler(n) == IF n <= 0 THEN <<>> ELSE Repeat("%", n - 1) \o <<"\n">>

DictSeqs == UNION {[1..n -> DictMenu] : n \in 0..MaxDictLines}

\* The files: an optional trailer keyword line, the dictionary lines, the
\* startxref part and the end-of-file marker; filler before the keyword or
\* between the keyword and the dictionary makes the file shorter than,
\* exactly as long as, or longer than the tail block.
TrailerFiles ==
  {pre \o kw \o mid \o Concat(ds) \o sx \o EOFMarker :
     pre \in {<<>>, Filler(TailLen)},
     kw \in {<<>>, KwTrailer \o <<"\n">>},
     mid \in {<<>>, Filler(TailLen)},
     ds \in DictSeqs,
     sx \in StartxrefMenu}
  \cup
  {Filler(TailLen - Len(body)) \o body :
     body \in {KwTrailer \o <<"\n">> \o Concat(ds) \o sx \o EOFMarker :
                 ds \in DictSeqs, sx \in StartxrefMenu}}

TrailerInit ==
  /\ pc = "readTrailer"
  /\ \E f \in TrailerFiles : \E bad \in {0, Len(f)} :
       /\ ra = [data |-> f, bad |-> bad]
       /\ size = Len(f)
  /\ ar = NoReader /\ buf = <<>> /\ tr = NoTrailer /\ scanner = NoScanner
  /\ xs = NoXref /\ mn = NoMain /\ ent = NoEntry /\ b = <<>> /\ ret = <<>> /\ err = "nil"

\* the offset of the tail read
TailOffset(sz) == sz - TailLen

\* readTrailer, lines 126-133: the tail read into the zeroed buf
TrailerRead ==
  /\ pc = "readTrailer"
  /\ LET res == ReadAt(ra, TailLen, TailOffset(size))
     IN  /\ buf' = res.p \o Repeat("NUL", TailLen - res.n)
         /\ IF res.err # "nil" /\ res.err # "EOF"
            THEN pc' = "returned" /\ err' = res.err
            ELSE pc' = "trim" /\ err' = err
  /\ UNCHANGED <<ra, ar, size, tr, scanner, xs, mn, ent, b, ret>>

findTrailerInBlock(blk) == Index(blk, KwTrailer)

\* readTrailer, lines 135-140: cut the block at the keyword, keep it as Raw
TrailerTrim ==
  /\ pc = "trim"
  /\ LET p   == findTrailerInBlock(buf)
         cut == IF p > 0 THEN From(buf, p) ELSE buf
     IN  /\ buf' = cut
         /\ tr' = [tr EXCEPT !.Raw = cut]
         /\ scanner' = NewScanner(cut)
  /\ pc' = "scan"
  /\ UNCHANGED <<ra, ar, size, xs, mn, ent, b, err, ret>>

\* a faulty variant of StartxrefText that takes the rest of the keyword line
StartxrefTextSameLine(sc) == From(sc.tok, Len(KwStartxref))

\* the text parsed as the startxref value once Scan delivered the keyword line
StartxrefText(sc) == Scan(sc).tok

\* the text parsed as the /Size value of line l, the key found at n
SizeText(l, n) == From(l, n + Len(KwSize) + 1)

\* readTrailer, lines 141-162: one turn of the scanning loop
TrailerScan ==
  /\ pc = "scan"
  /\ IF ~CanScan(scanner)
     THEN /\ scanner' = Scan(scanner)
          /\ pc' = "scanned"
          /\ UNCHANGED <<tr, err>>
     ELSE LET sc == Scan(scanner)
              l  == sc.tok
              n  == Index(l, KwSize \o <<" ">>)
          IN  IF HasPrefix(l, KwStartxref)
              THEN LET xref == ParseInt(StartxrefText(sc))
                   IN  /\ scanner' = Scan(sc)
                       /\ IF xref.err # "nil"
                          THEN pc' = "returned" /\ err' = "startxref" /\ tr' = tr
                          ELSE /\ tr' = [tr EXCEPT !.StartXref = xref.v]
                               /\ UNCHANGED <<pc, err>>
              ELSE IF n >= 0
              THEN LET sz == ParseInt(SizeText(l, n))
                   IN  /\ scanner' = sc
                       /\ IF sz.err # "nil" \/ sz.v = 0
                          THEN pc' = "returned" /\ err' = "/Size" /\ tr' = tr
                          ELSE /\ tr' = [tr EXCEPT !.Size = sz.v]
                               /\ UNCHANGED <<pc, err>>
              ELSE /\ scanner' = sc
                   /\ UNCHANGED <<pc, tr, err>>
  /\ UNCHANGED <<ra, ar, size, buf, xs, mn, ent, b, ret>>

\* readTrailer, lines 164-168: a scanner over bytes.Reader meets no read
\* error, and no line of the block is longer than the scanner's buffer
TrailerReturn ==
  /\ pc = "scanned"
  /\ pc' = "returned"
  /\ err' = "nil"
  /\ UNCHANGED <<ra, ar, size, buf, tr, scanner, xs, mn, ent, b, ret>>

TrailerNext == TrailerRead \/ TrailerTrim \/ TrailerScan \/ TrailerReturn

SpecTrailer == TrailerInit /\ [][TrailerNext]_vars

\* What the claims about readTrailer speak of, computed from the file alone:
\* the last TailLen bytes (the whole file when it is shorter), the block from
\* the first trailer keyword on, and its lines
Window(f) == IF Len(f) <= TailLen THEN f ELSE From(f, Len(f) - TailLen)

HasKeyword(f) == Index(Window(f), KwTrailer) >= 0

BlockLines(f) ==
  LET w == Window(f)
      t == Index(w, KwTrailer)
  IN  IF t < 0 THEN <<>> ELSE ScanLines(From(w, t))

\* the lines among ls holding the /Size key, and the text after the key
SizeLines(ls) == {k \in 1..Len(ls) : Index(ls[k], KwSize \o <<" ">>) >= 0}

SizeRest(l) == From(l, Index(l, KwSize \o <<" ">>) + Len(KwSize) + 1)

\* line l holds "/Size v": the key, a space, and the digits of v and no more digit
HoldsSize(l, v) ==
  LET n == Index(l, KwSize \o <<" ">> \o v)
      r == From(l, n + Len(KwSize) + 1 + Len(v))
  IN  n >= 0 /\ (r = <<>> \/ ~IsDigit(r[1]))

\* the lines ls hold exactly one startxref line, and the line after it holds a
\* decimal integer
StartxrefAt(ls) == {k \in 1..Len(ls) : HasPrefix(ls[k], KwStartxref)}

HasStartxrefN(ls) ==
  \E k \in 1..(Len(ls) - 1) :
    /\ StartxrefAt(ls) = {k}
    /\ ls[k] = KwStartxref
    /\ ParseInt(ls[k + 1]).err = "nil"

StartxrefN(ls) == ParseInt(ls[Min(StartxrefAt(ls)) + 1]).v

\* the tail read meets no device error and the file fills the tail block
TailReadable == ra.bad = 0 /\ Len(ra.data) >= TailLen

\* C4: for every file shorter than 1024 bytes, readTrailer reads the whole
\* file as the tail block and returns without an I/O error.
C4_ShortFileNoIOError ==
  (pc = "returned" /\ Len(ra.data) < TailLen /\ ra.bad = 0)
    => err \notin {"negative offset", "EIO"}

\* C5: the trailer's size is mandatory: readTrailer never returns success with
\* Size = 0 (a block without /Size does not yield a Trailer of size 0).
C5_SizeMandatory ==
  (pc = "returned" /\ err = "nil") => tr.Size # 0

\* C6: a block holding /Size 37, wherever the key sits on its line and whatever
\* shares the line, yields size 37 (stated where nothing else can fail: the
\* tail read succeeds, no other line holds /Size, the startxref value parses);
\* a block with a line /Size 0 or /Size abc yields an error.
C6_Size37 ==
  pc = "returned" =>
    LET ls == BlockLines(ra.data)
    IN  /\ ( /\ TailReadable /\ err # "startxref"
             /\ \E k \in 1..Len(ls) :
                  SizeLines(ls) = {k} /\ HoldsSize(ls[k], <<"3", "7">>) )
           => (err = "nil" /\ tr.Size = 37)
        /\ (\E k \in SizeLines(ls) :
              ls[k] \in {<<"/", "S", "i", "z", "e", " ", "0">>,
                         <<"/", "S", "i", "z", "e", " ", "a", "b", "c">>})
           => err # "nil"

\* C7 as stated: when the last 1024 bytes hold the trailer keyword, later a
\* startxref line and then a line holding N, readTrailer returns start_xref = N
\* whatever the other lines of the block are (stated for the files whose tail
\* read succeeds and whose /Size keys are the last of their lines).
C7_StartxrefRegardless ==
  pc = "returned" =>
    LET ls == BlockLines(ra.data)
    IN  ( /\ HasStartxrefN(ls) /\ TailReadable
          /\ \A k \in SizeLines(ls) : Index(SizeRest(ls[k]), <<" ">>) < 0 )
        => (err = "nil" /\ tr.StartXref = StartxrefN(ls))

\* C7, amended: for such a block readTrailer returns start_xref = N whenever it
\* returns without error, and it returns an error only when the tail read
\* fails or a line of the block holds "/Size " followed, up to the line's end,
\* by text that is not a non-zero decimal integer.
C7_StartxrefWhenParsed ==
  pc = "returned" =>
    LET ls == BlockLines(ra.data)
    IN  HasStartxrefN(ls) =>
          /\ err = "nil" => tr.StartXref = StartxrefN(ls)
          /\ err # "nil" =>
               \/ ~TailReadable
               \/ \E k \in SizeLines(ls) :
                    LET v == ParseInt(SizeRest(ls[k]))
                    IN  v.err # "nil" \/ v.v = 0

\* a block with dictionary lines between the keyword and startxref was parsed
C7_Witness ==
  /\ pc = "returned" /\ err = "nil" /\ tr.StartXref = 116
  /\ LET ls == BlockLines(ra.data)
     IN  HasStartxrefN(ls) /\ Min(StartxrefAt(ls)) > 2

----------------------------------------------------------------------------
(* SpecXref: Trailer.ListXrefEntries on a file, then main's lookup *)

MaxTableLines == 5

MaxSize == 3

MaxArg == 1

MaxFaultTable == 2

\* The lines an xref table is drawn from: subsection headers, entry lines, and
\* lines that are neither
XrefHeader1 == <<"0", " ", "1", "\n">>

XrefHeader2 == <<"3", " ", "2", "\n">>

XrefFree == <<"0", "0", "0", "0", "0", "0", "0", "0", "0", "0", " ", "6",
    "5", "5", "3", "5", " ", "f", " ", "\n">>

XrefInUse == <<"0", "0", "0", "0", "0", "0", "0", "0", "1", "7", " ", "0",
    "0", "0", "0", "0", " ", "n", "\r", "\n">>

XrefKeyword == <<"t", "r", "a", "i", "l", "e", "r", "\n">>

XrefNumber == <<"1", "2", "3", "4", "5", "\n">>

XrefBadHeader == <<"0", " ", "x", "\n">>

XrefFirst == {XrefHeader1, XrefHeader2, XrefBadHeader, XrefInUse}

XrefRest == {XrefHeader1, XrefHeader2, XrefFree, XrefInUse, XrefKeyword, XrefNumber}

PdfHeader == <<"%", "P", "D", "F", "\n">>

\* The tables: empty, or a first line and up to MaxTableLines - 1 more
XrefTables ==
  {<<>>} \cup
  {<<h>> \o t : h \in XrefFirst,
                t \in UNION {[1..n -> XrefRest] : n \in 0..(MaxTableLines - 1)}}

\* The files: the header line, the xref line and the table.  StartXref is the
\* offset of the xref line or, for the short tables, 0, where the header line
\* is; the last byte of a short table's file may be unreadable.
XrefInit ==
  /\ pc = "ListXrefEntries"
  /\ \E t \in XrefTables : \E bad \in {0, 1} : \E sx \in {0, Len(PdfHeader)} :
     \E sz \in 0..MaxSize :
       LET f == PdfHeader \o KwXref \o <<"\n">> \o Concat(t)
       IN  /\ (bad = 1 \/ sx = 0) => Len(t) <= MaxFaultTable
           /\ ra = [data |-> f, bad |-> bad * Len(f)]
           /\ tr = [StartXref |-> sx, Size |-> sz, Raw |-> <<>>]
  /\ ar = NoReader /\ size = 0 /\ buf = <<>> /\ scanner = NoScanner
  /\ xs = NoXref /\ mn = NoMain /\ ent = NoEntry /\ b = <<>> /\ ret = <<>> /\ err = "nil"

\* ListXrefEntries, lines 172-177: the scanner at StartXref and its first line
XrefOpen ==
  /\ pc = "ListXrefEntries"
  /\ LET sc == Scan(NewScannerAt(ra, tr.StartXref))
     IN  /\ scanner' = sc
         /\ IF sc.tok # KwXref
            THEN pc' = "returned" /\ err' = "should be xref"
            ELSE pc' = "loop" /\ err' = err
  /\ UNCHANGED <<ra, ar, size, buf, tr, xs, mn, ent, b, ret>>

\* a faulty variant of AllRead that stops one entry late
AllReadAfter(t, total) == t.Size < total

\* line 184: all the entries of the table are read
AllRead(t, total) == t.Size = total

\* a faulty variant of EntryNumber that counts from the start of the table
EntryNumberByTotal(offset, pos, total) == offset + total

\* line 218: the object number of the entry at pos of its subsection
EntryNumber(offset, pos, total) == offset + pos

\* readXrefEntry: the entry of the pieces, an error, or the panic of an index
\* out of range
readXrefEntry(entry) ==
  LET off == ParseInt(entry[1])
  IN  IF off.err # "nil" THEN [err |-> "entry offset"]
      ELSE IF Len(entry) < 2 THEN [err |-> "panic"]
      ELSE LET gen == ParseInt(entry[2])
           IN  IF gen.err # "nil" THEN [err |-> "entry generation"]
               ELSE IF Len(entry) < 3 THEN [err |-> "panic"]
               ELSE [err |-> "nil",
                     e |-> [ByteOffset |-> off.v, Number |-> 0, Generation |-> gen.v,
                            InUse |-> HasPrefix(entry[3], <<"n">>)]]

\* ListXrefEntries, lines 183-222: one turn of the loop
XrefLoop ==
  /\ pc = "loop"
  /\ scanner' = Scan(scanner)
  /\ IF ~CanScan(scanner) \/ AllRead(tr, xs.total)
     THEN pc' = "scanned" /\ UNCHANGED <<xs, err>>
     ELSE LET entry == SplitN3(scanner'.tok)
              seen  == [xs EXCEPT !.last = scanner'.i, !.fields = Len(entry)]
          IN  IF Len(entry) = 2
              THEN LET o == ParseInt(entry[1])
                       c == ParseInt(entry[2])
                   IN  IF o.err # "nil"
                       THEN pc' = "returned" /\ err' = "subsection offset" /\ xs' = seen
                       ELSE IF c.err # "nil"
                       THEN /\ pc' = "returned" /\ err' = "subsection count"
                            /\ xs' = [seen EXCEPT !.offset = o.v]
                       ELSE /\ xs' = [seen EXCEPT !.offset = o.v, !.count = c.v, !.pos = 0]
                            /\ UNCHANGED <<pc, err>>
              ELSE IF xs.pos = xs.count
              THEN xs' = seen /\ UNCHANGED <<pc, err>>
              ELSE LET r == readXrefEntry(entry)
                   IN  IF r.err = "panic"
                       THEN pc' = "panic" /\ xs' = seen /\ err' = err
                       ELSE IF r.err # "nil"
                       THEN pc' = "returned" /\ err' = r.err /\ xs' = seen
                       ELSE /\ xs' = [seen EXCEPT
                                       !.entries = Append(@,
                                          [r.e EXCEPT !.Number =
                                             EntryNumber(xs.offset, xs.pos, xs.total)]),
                                       !.from = Append(@, scanner'.i),
                                       !.pos = @ + 1,
                                       !.total = @ + 1]
                            /\ UNCHANGED <<pc, err>>
  /\ UNCHANGED <<ra, ar, size, buf, tr, mn, ent, b, ret>>

\* ListXrefEntries, lines 224-228
XrefReturn ==
  /\ pc = "scanned"
  /\ IF scanner.err # "nil"
     THEN pc' = "returned" /\ err' = "scan"
     ELSE pc' = "listed" /\ err' = "nil"
  /\ UNCHANGED <<ra, ar, size, buf, tr, scanner, xs, mn, ent, b, ret>>

\* main, lines 65-68: the index argument; -1 stands for the last entry
MainIndex(arg) ==
  /\ pc = "listed"
  /\ mn' = [mn EXCEPT !.arg = arg,
                      !.entryN = IF arg = -1 THEN Len(xs.entries) - 1 ELSE arg]
  /\ pc' = "find"
  /\ UNCHANGED <<ra, ar, size, buf, tr, scanner, xs, ent, b, err, ret>>

\* findXrefEntry: the places of the entries of that number and generation
findXrefEntry(entries, number, generation) ==
  {i \in 1..Len(entries) :
     entries[i].Number = number /\ entries[i].Generation = generation}

\* main, lines 70-73: the lookup of the number entryN at generation 0
MainFind ==
  /\ pc = "find"
  /\ LET hit == findXrefEntry(xs.entries, mn.entryN, 0)
     IN  IF hit = {}
         THEN pc' = "fatal" /\ err' = "no entry found" /\ mn' = mn
         ELSE /\ pc' = "found" /\ err' = err
              /\ mn' = [mn EXCEPT !.entry = <<xs.entries[Min(hit)]>>]
  /\ UNCHANGED <<ra, ar, size, buf, tr, scanner, xs, ent, b, ret>>

XrefNext ==
  \/ XrefOpen
  \/ XrefLoop
  \/ XrefReturn
  \/ \E arg \in -1..MaxArg : MainIndex(arg)
  \/ MainFind

SpecXref == XrefInit /\ [][XrefNext]_vars

\* the lines of ls from the k-th on that are entry lines (three pieces) covered
\* by the count of their subsection, pos entries of count being read so far
RECURSIVE CoveredFrom(_, _, _, _)
CoveredFrom(ls, k, pos, count) ==
  IF k > Len(ls) THEN 0
  ELSE LET e == SplitN3(ls[k])
       IN  IF Len(e) = 2 THEN CoveredFrom(ls, k + 1, 0, ParseInt(e[2]).v)
           ELSE IF Len(e) = 3 /\ pos < count
           THEN 1 + CoveredFrom(ls, k + 1, pos + 1, count)
           ELSE CoveredFrom(ls, k + 1, pos, count)

InList == pc \in {"loop", "scanned", "listed", "find", "found", "fatal"}

\* C1: with Size >= 1, ListXrefEntries never holds more entries than Size; once
\* the running total equals Size no further line is split, so the scan stops
\* before the line that follows the last entry; and the list returned has
\* exactly Size entries when the table holds at least Size entry lines covered
\* by its subsection counts.
C1_SizeBound ==
  (InList /\ tr.Size >= 1) =>
    /\ Len(xs.entries) <= tr.Size
    /\ xs.total = Len(xs.entries)
    /\ xs.total = tr.Size => xs.last = xs.from[tr.Size]
    /\ (pc = "listed" /\ CoveredFrom(scanner.lines, 2, 0, 0) >= tr.Size)
         => Len(xs.entries) = tr.Size

\* the list was returned full, the scanner stopped on the trailer keyword line
\* after the table, and that line was not split
C1_Witness ==
  /\ pc = "listed" /\ tr.Size >= 2 /\ Len(xs.entries) = tr.Size
  /\ scanner.i <= Len(scanner.lines)
  /\ scanner.tok = KwTrailer
  /\ xs.last < scanner.i

\* the subsection headers among the lines before the j-th
HeadersBefore(ls, j) == {h \in 2..(j - 1) : Len(SplitN3(ls[h])) = 2}

\* C2: every entry's object number is the first object number of the most
\* recent subsection header plus the entry's position within that subsection,
\* the entries are in the order of their lines; subsection 0 1 with one entry
\* and subsection 3 2 with two entries yield the numbers 0, 3, 4.
C2_ObjectNumbers ==
  InList =>
    /\ \A i \in 1..Len(xs.entries) :
         LET hs == HeadersBefore(scanner.lines, xs.from[i])
         IN  /\ hs # {}
             /\ xs.entries[i].Number =
                  ParseInt(SplitN3(scanner.lines[Max(hs)])[1]).v
                  + Cardinality({k \in 1..(i - 1) : xs.from[k] > Max(hs)})
             /\ i > 1 => xs.from[i - 1] < xs.from[i]
    /\ ( /\ pc = "listed" /\ tr.Size = 3 /\ Len(scanner.lines) = 6
         /\ scanner.lines[2] = <<"0", " ", "1">>
         /\ scanner.lines[4] = <<"3", " ", "2">>
         /\ \A k \in {3, 5, 6} : Len(SplitN3(scanner.lines[k])) = 3 )
       => [i \in 1..Len(xs.entries) |-> xs.entries[i].Number] = <<0, 3, 4>>

\* the two subsections of the example were read
C2_Witness ==
  /\ pc = "listed" /\ tr.Size = 3 /\ Len(scanner.lines) = 6
  /\ scanner.lines[2] = <<"0", " ", "1">>
  /\ scanner.lines[4] = <<"3", " ", "2">>
  /\ [i \in 1..Len(xs.entries) |-> xs.entries[i].Number] = <<0, 3, 4>>

\* C8: the index -1 resolves to the last entry of the list, and the number
\* looked up at generation 0 is that entry's object number, whatever the table.
C8_SentinelIsLastEntry ==
  (pc \in {"find", "found", "fatal"} /\ mn.arg = -1 /\ xs.entries # <<>>) =>
    mn.entryN = xs.entries[Len(xs.entries)].Number

\* C9: while the table is scanned, a line that splits into neither 2 nor 3
\* pieces ends the operation with an error: it is not skipped, and it is not a
\* crash.
C9_OneFieldIsError ==
  xs.fields = 1 => (pc = "returned" /\ err # "nil")

----------------------------------------------------------------------------
(* SpecEntry: readEntry on an entry of a file *)

MaxObjLines == 4

\* The lines the file around an object is drawn from; the last one has no line
\* end, so it runs into the line after it
ObjStart == <<"5", " ", "0", " ", "o", "b", "j", "\n">>

ObjBody == <<"<", "<", " ", "/", "T", "y", "p", "e", " ", "/", "C", "a", "t",
    "a", "l", "o", "g", " ", ">", ">", "\n">>

ObjEnd == <<"e", "n", "d", "o", "b", "j", "\n">>

ObjEndMixed == <<"E", "n", "d", "O", "b", "j", "\r", "\n">>

ObjEndSpace == <<"e", "n", "d", "o", "b", "j", " ", "\n">>

ObjEndOpen == <<"e", "n", "d", "o", "b", "j">>

ObjMenu == {ObjStart, ObjBody, ObjEnd, ObjEndMixed, ObjEndSpace, ObjEndOpen}

ObjFiles == UNION {[1..n -> ObjMenu] : n \in 0..MaxObjLines}

\* The entry points at the start of one of the file's lines, or into the first
\* line; the last byte of a short file may be unreadable.
EntryInit ==
  /\ pc = "readEntry"
  /\ \E t \in ObjFiles : \E k \in 0..Len(t) : \E mid \in {0, 2} : \E bad \in {0, 1} :
       LET f == Concat(t)
       IN  /\ mid = 2 => (k = 0 /\ Len(f) >= 2)
           /\ bad = 1 => Len(t) <= MaxFaultTable
           /\ ra = [data |-> f, bad |-> bad * Len(f)]
           /\ ent = [NoEntry EXCEPT !.ByteOffset = Len(Concat(SubSeq(t, 1, k))) + mid]
  /\ ar = NoReader /\ size = 0 /\ buf = <<>> /\ tr = NoTrailer /\ scanner = NoScanner
  /\ xs = NoXref /\ mn = NoMain /\ b = <<>> /\ ret = <<>> /\ err = "nil"

\* readEntry, lines 85-95: the scanner at the entry's offset and the start line
EntryOpen ==
  /\ pc = "readEntry"
  /\ LET sc == Scan(NewScannerAt(ra, ent.ByteOffset))
         l  == sc.tok
     IN  /\ scanner' = sc
         /\ IF ~HasSuffix(l, KwObj)
            THEN pc' = "returned" /\ err' = "should start with a reference object"
                 /\ ret' = <<>> /\ b' = b
            ELSE pc' = "copy" /\ b' = b \o l \o <<"\n">> /\ UNCHANGED <<ret, err>>
  /\ UNCHANGED <<ra, ar, size, buf, tr, xs, mn, ent>>

\* line 99: the line that ends the object
IsEndobj(l) == EqualFold(l, KwEndobj)

\* readEntry, lines 97-105: one turn of the copying loop
EntryCopy ==
  /\ pc = "copy"
  /\ scanner' = Scan(scanner)
  /\ IF ~CanScan(scanner)
     THEN pc' = "copied" /\ b' = b
     ELSE /\ b' = b \o scanner'.tok \o <<"\n">>
          /\ pc' = IF IsEndobj(scanner'.tok) THEN "copied" ELSE "copy"
  /\ UNCHANGED <<ra, ar, size, buf, tr, xs, mn, ent, ret, err>>

\* readEntry, lines 107-111
EntryReturn ==
  /\ pc = "copied"
  /\ pc' = "returned"
  /\ IF scanner.err # "nil"
     THEN err' = "unable to read entry" /\ ret' = <<>>
     ELSE err' = "nil" /\ ret' = b
  /\ UNCHANGED <<ra, ar, size, buf, tr, scanner, xs, mn, ent, b>>

EntryNext == EntryOpen \/ EntryCopy \/ EntryReturn

SpecEntry == EntryInit /\ [][EntryNext]_vars

\* the lines of the file from the entry's offset on
LinesAt(f, off) == ScanLines(From(f, off))

\* the lines among ls, after the first, that are endobj in some case
EndobjAt(ls) ==
  {k \in 2..Len(ls) :
     /\ Len(ls[k]) = 6
     /\ ls[k][1] \in {"e", "E"} /\ ls[k][2] \in {"n", "N"} /\ ls[k][3] \in {"d", "D"}
     /\ ls[k][4] \in {"o", "O"} /\ ls[k][5] \in {"b", "B"} /\ ls[k][6] \in {"j", "J"}}

\* the lines ls up to the k-th, each followed by one newline
Joined(ls, k) == Concat([i \in 1..k |-> ls[i] \o <<"\n">>])

\* C3: when the line at the entry's offset ends in obj, readEntry returns the
\* lines from it through the first later line that is endobj in any case
\* (through the last line when there is none), each followed by one newline,
\* and nothing after; when the line does not end in obj, readEntry returns an
\* error and no bytes.
C3_ObjectBytes ==
  (pc = "returned" /\ ra.bad = 0) =>
    LET ls == LinesAt(ra.data, ent.ByteOffset)
    IN  IF ls # <<>> /\ HasSuffix(ls[1], KwObj)
        THEN /\ err = "nil"
             /\ ret = Joined(ls, IF EndobjAt(ls) = {} THEN Len(ls) ELSE Min(EndobjAt(ls)))
        ELSE err # "nil" /\ ret = <<>>

\* an object that ends with EndObj and a line end of two bytes was returned,
\* and lines follow it in the file
C3_Witness ==
  /\ pc = "returned" /\ ra.bad = 0 /\ err = "nil"
  /\ LET ls == LinesAt(ra.data, ent.ByteOffset)
     IN  /\ EndobjAt(ls) # {}
         /\ Min(EndobjAt(ls)) = 3
         /\ Len(ls) > 3
         /\ ls[1] = <<"5", " ", "0", " ", "o", "b", "j">>
         /\ ls[3] = <<"E", "n", "d", "O", "b", "j">>
         /\ ret = Joined(ls, 3)

----------------------------------------------------------------------------
(* SpecRead: Read calls on one AtReader *)

MaxData == 5

MaxReadLen == 3

MaxReads == 3

ReadInit ==
  /\ pc = "reader"
  /\ \E bad \in 0..MaxData : ra = [data |-> SubSeq(Lower, 1, MaxData), bad |-> bad]
  /\ \E s \in 0..(MaxData + 1) : ar = NewAtReader(s)
  /\ size = 0 /\ buf = <<>> /\ tr = NoTrailer /\ scanner = NoScanner
  /\ xs = NoXref /\ mn = NoMain /\ ent = NoEntry /\ b = <<>> /\ ret = <<>> /\ err = "nil"

\* func (ar *AtReader) Read(p []byte) (int, error), len(p) = n
Read(n) ==
  /\ pc = "reader"
  /\ ar.calls < MaxReads
  /\ LET res == ReadAt(ra, n, ar.offset)
     IN  ar' = [ar EXCEPT !.offset = ReadOffset(ar, res),
                          !.returned = @ + res.n,
                          !.got = @ \o res.p,
                          !.calls = @ + 1,
                          !.n = res.n,
                          !.err = res.err]
  /\ UNCHANGED <<pc, ra, size, buf, tr, scanner, xs, mn, ent, b, err, ret>>

ReadNext == \E n \in 1..MaxReadLen : Read(n)

SpecRead == ReadInit /\ [][ReadNext]_vars

\* C10: after any sequence of Read calls on an AtReader created at offset
\* start, the cursor is start plus the number of bytes the calls returned, and
\* the bytes returned are the source's bytes from start on, without overlap
\* or gap.
C10_CursorTracksReturned ==
  pc = "reader" =>
    /\ ar.offset = ar.start + ar.returned
    /\ ar.got = SubSeq(ra.data, ar.start + 1, ar.start + ar.returned)

=============================================================================
